---- MODULE Spec2Model ----
(***************************************************************************)
(* Explainable Cloud Cost Anomaly Detection (src/app.py).                  *)
(*                                                                         *)
(* The script loads an event log, sorts it by timestamp, shows statistics  *)
(* and, when the Run button is pressed, calls find_best_chain(df,          *)
(* max_depth) and renders the chain it returns.                            *)
(*                                                                         *)
(* An event is a record [timestamp, event_type]; timestamps are whole      *)
(* hours.  resource_id, actor and metadata values are opaque to the code   *)
(* (they are only formatted into text), so the model keeps only whether    *)
(* their columns are present; the metadata column, read only by the        *)
(* timeline at line 191, is taken to be present.  A chain is a sequence of *)
(* row indices of the sorted frame, earliest first.                        *)
(*                                                                         *)
(*   Spec    the whole script, from the raw input to the rendered result   *)
(*   SpecFn  find_best_chain called on a sorted frame with any max_depth   *)
(***************************************************************************)
EXTENDS Integers, Sequences, FiniteSets

VARIABLES pc, has_df, cols, df, max_depth, chain, out, err, confidence

vars == <<pc, has_df, cols, df, max_depth, chain, out, err, confidence>>

(***************************************************************************)
(* Bounds of the model.                                                    *)
(***************************************************************************)
MaxEvents == 3      \* rows of the frame handed to find_best_chain (SpecFn)
MaxRecords == 2     \* rows of the raw input of the script (Spec)
MaxDepth == 3       \* largest max_depth handed to find_best_chain (SpecFn)

(***************************************************************************)
(* Program constants.                                                      *)
(***************************************************************************)
WINDOW == 24        \* timedelta(hours=24)
SliderMin == 2      \* min_value of the "Causal Chain Depth" slider
SliderMax == 6      \* max_value of the "Causal Chain Depth" slider

EventTypes ==
    {"CPU_SPIKE", "MEMORY_SURGE", "RESOURCE_SCALE",
     "TRAFFIC_SPIKE", "CONFIG_CHANGE", "COST_ANOMALY"}

\* Hours used for timestamps: 0,1,2 are consecutive hours, 2 -> 26 is exactly
\* 24h, 1 -> 26 is 25h, 2 -> 31 is 29h and 1 -> 31 is 30h.
Times == {0, 1, 2, 26, 31}

\* A timestamp cell pd.to_datetime cannot parse.
BadTime == -1

RequiredCols == {"timestamp", "event_type", "resource_id", "actor"}

CAUSAL_RULES ==
    { <<"CPU_SPIKE", "RESOURCE_SCALE">>,
      <<"MEMORY_SURGE", "RESOURCE_SCALE">>,
      <<"RESOURCE_SCALE", "COST_ANOMALY">>,
      <<"CPU_SPIKE", "COST_ANOMALY">>,
      <<"MEMORY_SURGE", "COST_ANOMALY">> }

\* find_best_chain returns None or a list of at least two rows; the empty
\* sequence stands for None (the code never builds an empty list).
None == <<>>

(***************************************************************************)
(* Helpers.                                                                *)
(***************************************************************************)
Max(S) == CHOOSE x \in S : \A y \in S : y <= x

Min(S) == CHOOSE x \in S : \A y \in S : x <= y

MkFrame(ts, ty) == [i \in 1..Len(ts) |-> [timestamp |-> ts[i], event_type |-> ty[i]]]

\* The timestamp columns of k rows in ascending order.
SortedTimes(k) ==
    {t \in [1..k -> Times] : \A i \in 1..(k - 1) : t[i] <= t[i + 1]}

\* df.sort_values("timestamp").reset_index(drop=True): the rows of d in
\* ascending timestamp order.  The default sort kind is not stable, so rows
\* with equal timestamps may come out in any order.
SortValues(d) ==
    { [i \in 1..Len(d) |-> d[p[i]]] :
        p \in {q \in [1..Len(d) -> 1..Len(d)] :
                  /\ \A i, j \in 1..Len(d) : i # j => q[i] # q[j]
                  /\ \A i \in 1..(Len(d) - 1) :
                        d[q[i]].timestamp <= d[q[i + 1]].timestamp} }

(***************************************************************************)
(* find_best_chain (lines 124-151).                                        *)
(***************************************************************************)
\* anomalies = df[df["event_type"] == "COST_ANOMALY"]
Anomalies(d) == {i \in 1..Len(d) : d[i].event_type = "COST_ANOMALY"}

FirstAnomaly(A) == Min(A)

\* anomalies.iloc[-1]
LastAnomaly(A) == Max(A)

InWindowLoose(t, current_time) ==
    /\ t <= current_time
    /\ t >= current_time - WINDOW

InWindowOpen(t, current_time) ==
    /\ t < current_time
    /\ t > current_time - WINDOW

\* (df["timestamp"] < current_time) & (df["timestamp"] >= current_time - 24h)
InWindow(t, current_time) ==
    /\ t < current_time
    /\ t >= current_time - WINDOW

Candidates(d, current_time) ==
    {i \in 1..Len(d) : InWindow(d[i].timestamp, current_time)}

\* (row["event_type"], chain[0]["event_type"]) in CAUSAL_RULES
RuleMatch(cause_type, effect_type) == <<cause_type, effect_type>> \in CAUSAL_RULES

Matching(d, c, current_time) ==
    {i \in Candidates(d, current_time) :
        RuleMatch(d[i].event_type, d[c[1]].event_type)}

PickEarliest(M) == Min(M)

\* candidates.iloc[::-1].iterrows() with break at the first match: the
\* matching row of highest index.
PickRow(M) == Max(M)

DiscardChain(c) == <<c[Len(c)]>>

\* if not found: break  -- the chain built so far is kept.
NotFound(c) == c

IterationsOffByOne(depth) == depth

\* range(max_depth - 1)
Iterations(depth) == depth - 1

\* The for loop of lines 134-149 with n iterations left.
RECURSIVE ExtendChain(_, _, _, _)
ExtendChain(d, c, current_time, n) ==
    IF n <= 0 THEN c
    ELSE LET M == Matching(d, c, current_time) IN
         IF M = {} THEN NotFound(c)
         ELSE LET row == PickRow(M) IN
              ExtendChain(d, <<row>> \o c, d[row].timestamp, n - 1)

\* return chain if len(chain) > 1 else None
ReturnValue(c) == IF Len(c) > 1 THEN c ELSE None

find_best_chain(d, depth) ==
    IF Anomalies(d) = {} THEN None
    ELSE LET anomaly == LastAnomaly(Anomalies(d)) IN
         ReturnValue(ExtendChain(d, <<anomaly>>, d[anomaly].timestamp,
                                 Iterations(depth)))

\* round(len(chain) / max_depth, 2), in hundredths; round() rounds a tie to
\* the even neighbour.
Confidence(len, depth) ==
    LET q == (100 * len) \div depth
        r == (100 * len) % depth
    IN  IF 2 * r < depth THEN q
        ELSE IF 2 * r > depth THEN q + 1
        ELSE IF q % 2 = 0 THEN q ELSE q + 1

(***************************************************************************)
(* The script.                                                             *)
(***************************************************************************)
Init ==
    /\ pc = "start"
    /\ has_df \in BOOLEAN
    /\ IF has_df
       THEN /\ cols \in SUBSET RequiredCols
            /\ \E k \in 0..MaxRecords :
                  \E ts \in [1..k -> Times \cup {BadTime}], ty \in [1..k -> EventTypes] :
                     df = MkFrame(ts, ty)
       ELSE /\ cols = {}
            /\ df = <<>>
    /\ max_depth \in SliderMin..SliderMax
    /\ chain = None
    /\ out = {}
    /\ err = "none"
    /\ confidence = -1

\* Lines 74-76: no upload and no sample: info message and st.stop().
NoData ==
    /\ pc = "start"
    /\ ~has_df
    /\ pc' = "stopped"
    /\ out' = out \cup {"info"}
    /\ UNCHANGED <<has_df, cols, df, max_depth, chain, err, confidence>>

\* Lines 78-79: parse the timestamp column and sort by it.
LoadData ==
    /\ pc = "start"
    /\ has_df
    /\ IF "timestamp" \notin cols
       THEN /\ pc' = "failed"
            /\ err' = "KeyError:timestamp"
            /\ df' = df
       ELSE IF \E i \in 1..Len(df) : df[i].timestamp = BadTime
       THEN /\ pc' = "failed"
            /\ err' = "ParseError"
            /\ df' = df
       ELSE /\ pc' = "loaded"
            /\ err' = err
            /\ df' \in SortValues(df)
    /\ UNCHANGED <<has_df, cols, max_depth, chain, out, confidence>>

\* Lines 85-106: the event log and the three metrics.
DisplayStats ==
    /\ pc = "loaded"
    /\ IF "resource_id" \notin cols
       THEN /\ pc' = "failed"
            /\ err' = "KeyError:resource_id"
            /\ out' = out \cup {"event_log"}
       ELSE IF "event_type" \notin cols
       THEN /\ pc' = "failed"
            /\ err' = "KeyError:event_type"
            /\ out' = out \cup {"event_log"}
       ELSE /\ pc' = "ready"
            /\ err' = err
            /\ out' = out \cup {"event_log", "stats"}
    /\ UNCHANGED <<has_df, cols, df, max_depth, chain, confidence>>

\* Line 157, run_btn false: the script ends without an analysis.
NoRun ==
    /\ pc = "ready"
    /\ pc' = "idle"
    /\ UNCHANGED <<has_df, cols, df, max_depth, chain, out, err, confidence>>

\* Lines 157-215, run_btn true.
RunAnalysis ==
    /\ pc = "ready"
    /\ LET c == find_best_chain(df, max_depth) IN
       /\ chain' = c
       /\ IF c = None
          THEN /\ pc' = "stopped"
               /\ out' = out \cup {"no_chain"}
               /\ err' = err
               /\ confidence' = confidence
          ELSE IF "actor" \notin cols
          THEN /\ pc' = "failed"
               /\ out' = out \cup {"chain_identified"}
               /\ err' = "KeyError:actor"
               /\ confidence' = confidence
          ELSE /\ pc' = "done"
               /\ out' = out \cup {"chain_identified", "explanation", "timeline",
                                   "confidence", "report"}
               /\ err' = err
               /\ confidence' = Confidence(Len(c), max_depth)
    /\ UNCHANGED <<has_df, cols, df, max_depth>>

Next == NoData \/ LoadData \/ DisplayStats \/ NoRun \/ RunAnalysis

Spec == Init /\ [][Next]_vars

(***************************************************************************)
(* find_best_chain on its own: any sorted frame, any max_depth.            *)
(***************************************************************************)
InitFn ==
    /\ pc = "call"
    /\ has_df = TRUE
    /\ cols = RequiredCols
    /\ \E k \in 0..MaxEvents :
          \E ts \in SortedTimes(k), ty \in [1..k -> EventTypes] :
             df = MkFrame(ts, ty)
    /\ max_depth \in 0..MaxDepth
    /\ chain = None
    /\ out = {}
    /\ err = "none"
    /\ confidence = -1

CallFindBestChain ==
    /\ pc = "call"
    /\ pc' = "returned"
    /\ chain' = find_best_chain(df, max_depth)
    /\ UNCHANGED <<has_df, cols, df, max_depth, out, err, confidence>>

NextFn == CallFindBestChain

SpecFn == InitFn /\ [][NextFn]_vars

(***************************************************************************)
(* The causal graph and the candidate chains as the specification defines  *)
(* them; the properties below compare find_best_chain against these.       *)
(***************************************************************************)

\* The rule set the specification lists as the domain default.
DefaultRuleSet ==
    { <<"CPU_SPIKE", "RESOURCE_SCALE">>,
      <<"MEMORY_SURGE", "RESOURCE_SCALE">>,
      <<"RESOURCE_SCALE", "COST_ANOMALY">>,
      <<"TRAFFIC_SPIKE", "COST_ANOMALY">>,
      <<"CPU_SPIKE", "COST_ANOMALY">>,
      <<"CONFIG_CHANGE", "RESOURCE_SCALE">>,
      <<"MEMORY_SURGE", "COST_ANOMALY">> }

\* a is strictly before b and at most WINDOW before it.
TimeLinked(d, a, b) ==
    /\ d[a].timestamp < d[b].timestamp
    /\ d[b].timestamp - d[a].timestamp <= WINDOW

\* Edge a -> b of the causal graph under the rule set R.
EdgeUnder(R, d, a, b) ==
    /\ TimeLinked(d, a, b)
    /\ <<d[a].event_type, d[b].event_type>> \in R

ValidEdge(d, a, b) == EdgeUnder(CAUSAL_RULES, d, a, b)

Preds(d, b) == {a \in 1..Len(d) : ValidEdge(d, a, b)}

\* Every sequence of 2..depth rows ending at a COST_ANOMALY row whose
\* consecutive pairs are edges.
CandidateChains(d, depth) ==
    { c \in UNION {[1..k -> 1..Len(d)] : k \in 2..depth} :
        /\ d[c[Len(c)]].event_type = "COST_ANOMALY"
        /\ \A k \in 1..(Len(c) - 1) : ValidEdge(d, c[k], c[k + 1]) }

Returned == pc = "returned"

ScenarioA ==
    << [timestamp |-> 0, event_type |-> "CPU_SPIKE"],
       [timestamp |-> 1, event_type |-> "RESOURCE_SCALE"],
       [timestamp |-> 2, event_type |-> "COST_ANOMALY"] >>

\* Scenario B with t0 = 1: the anomaly is at t0 + 30h.
ScenarioB ==
    << [timestamp |-> 1, event_type |-> "CPU_SPIKE"],
       [timestamp |-> 2, event_type |-> "RESOURCE_SCALE"],
       [timestamp |-> 31, event_type |-> "COST_ANOMALY"] >>

(***************************************************************************)
(* Properties of find_best_chain (SpecFn).                                 *)
(***************************************************************************)

\* C1: a returned chain has at least 2 events, ends at a COST_ANOMALY event,
\* and every consecutive pair (a, b) is a valid causal edge: a strictly
\* earlier than b, at most 24 hours earlier, and the type pair in the rules.
C1_ChainIsValidPath ==
    (Returned /\ chain # None) =>
        /\ Len(chain) >= 2
        /\ df[chain[Len(chain)]].event_type = "COST_ANOMALY"
        /\ \A k \in 1..(Len(chain) - 1) :
              /\ df[chain[k]].timestamp < df[chain[k + 1]].timestamp
              /\ df[chain[k + 1]].timestamp - df[chain[k]].timestamp <= WINDOW
              /\ <<df[chain[k]].event_type, df[chain[k + 1]].event_type>>
                    \in CAUSAL_RULES

\* A three-event chain whose last edge spans exactly the 24 hours.
C1_Witness ==
    /\ Returned
    /\ Len(chain) = 3
    /\ df[chain[3]].timestamp - df[chain[2]].timestamp = WINDOW

\* C2: the returned chain has the maximum length among all candidate chains
\* of 2..max_depth events; no candidate is strictly longer (a None result
\* has length 0, so it is maximal only when there is no candidate).
C2_ReturnsLongestChain ==
    Returned => \A c \in CandidateChains(df, max_depth) : Len(c) <= Len(chain)

\* C3: for max_depth >= 2 the search returns None only if no COST_ANOMALY
\* event of the log has a valid causal predecessor.
C3_EveryAnomalyIsTried ==
    (Returned /\ max_depth >= 2 /\ chain = None) =>
        \A a \in Anomalies(df) : Preds(df, a) = {}

\* C4: the rule set is the seven default pairs: the rule test of the search
\* accepts two events of the log, the first strictly before and within the
\* window of the second, iff their type pair is one of the seven; a
\* TRAFFIC_SPIKE before a COST_ANOMALY, and a CONFIG_CHANGE before a
\* RESOURCE_SCALE before a COST_ANOMALY, are returned as consecutive events.
C4_SevenDefaultRules ==
    (Returned /\ max_depth >= 2) =>
        /\ \A i, j \in 1..Len(df) :
              TimeLinked(df, i, j) =>
                 ( RuleMatch(df[i].event_type, df[j].event_type)
                      <=> <<df[i].event_type, df[j].event_type>> \in DefaultRuleSet )
        /\ ( /\ max_depth >= 2
             /\ Len(df) = 2
             /\ df[1].event_type = "TRAFFIC_SPIKE"
             /\ df[2].event_type = "COST_ANOMALY"
             /\ TimeLinked(df, 1, 2) ) => chain = <<1, 2>>
        /\ ( /\ max_depth >= 3
             /\ Len(df) = 3
             /\ df[1].event_type = "CONFIG_CHANGE"
             /\ df[2].event_type = "RESOURCE_SCALE"
             /\ df[3].event_type = "COST_ANOMALY"
             /\ TimeLinked(df, 1, 2)
             /\ TimeLinked(df, 2, 3) ) => chain = <<1, 2, 3>>

\* C5: for max_depth >= 2 a returned chain never has more than max_depth
\* events, so the confidence round(len(chain) / max_depth, 2) is in [0, 1].
C5_DepthBoundsChain ==
    (Returned /\ max_depth >= 2 /\ chain # None) =>
        /\ Len(chain) <= max_depth
        /\ Confidence(Len(chain), max_depth) \in 0..100

\* max_depth = 2 and a chain of exactly 2 events is returned although its
\* first event has a valid predecessor (a longer valid chain exists).
C5_Witness ==
    /\ Returned
    /\ max_depth = 2
    /\ Len(chain) = 2
    /\ Preds(df, chain[1]) # {}

\* C6: for the same log and any d <= max_depth, the chain returned with depth
\* d is no longer than the one returned with max_depth (None counts as the
\* lowest score): a chain found at the smaller depth is never lost.
C6_MonotoneInDepth ==
    Returned =>
        \A d \in 0..max_depth : Len(find_best_chain(df, d)) <= Len(chain)

\* The same log gives a two-event chain at depth 2 and a three-event chain at
\* depth 3.
C6_Witness ==
    /\ Returned
    /\ max_depth = 3
    /\ Len(chain) = 3
    /\ Len(find_best_chain(df, 2)) = 2

\* C7: Scenario A with max_depth = 3 returns [CPU_SPIKE, RESOURCE_SCALE,
\* COST_ANOMALY] earliest first, with confidence 1.0.
C7_ScenarioA ==
    (Returned /\ df = ScenarioA /\ max_depth = 3) =>
        /\ chain = <<1, 2, 3>>
        /\ Confidence(Len(chain), max_depth) = 100

C7_Witness ==
    /\ Returned
    /\ df = ScenarioA
    /\ max_depth = 3
    /\ Len(chain) = 3
    /\ df[chain[1]].event_type = "CPU_SPIKE"

\* C9: find_best_chain returns None iff the log has no COST_ANOMALY event, or
\* max_depth < 2, or no event is strictly earlier than, at most 24h earlier
\* than (boundary inclusive) and a rule-cause of the last COST_ANOMALY event.
\* Scenario B yields None.
C9_NoneExactly ==
    Returned =>
        /\ chain = None <=>
              \/ Anomalies(df) = {}
              \/ max_depth < 2
              \/ LET A == Max(Anomalies(df)) IN
                 ~ \E e \in 1..Len(df) :
                      /\ df[e].timestamp < df[A].timestamp
                      /\ df[A].timestamp - df[e].timestamp <= WINDOW
                      /\ <<df[e].event_type, "COST_ANOMALY">> \in CAUSAL_RULES
        /\ df = ScenarioB => chain = None

\* Scenario B has been searched with max_depth = 3.
C9_Witness ==
    /\ Returned
    /\ df = ScenarioB
    /\ max_depth = 3
    /\ chain = None

\* C10: the last element of a returned chain is the last COST_ANOMALY event;
\* every other element is the highest-index event that is a valid causal
\* predecessor of its successor; the chain stops at max_depth events or at
\* the first element that has no valid predecessor.
C10_GreedyLatestCause ==
    (Returned /\ chain # None) =>
        /\ chain[Len(chain)] = Max(Anomalies(df))
        /\ \A k \in 1..(Len(chain) - 1) :
              /\ Preds(df, chain[k + 1]) # {}
              /\ chain[k] = Max(Preds(df, chain[k + 1]))
        /\ Len(chain) = max_depth \/ Preds(df, chain[1]) = {}

\* The anomaly has two valid causes, the later one was taken, and the search
\* stopped there below max_depth because that cause has no predecessor.
C10_Witness ==
    /\ Returned
    /\ Len(chain) = 2
    /\ max_depth = 3
    /\ Cardinality(Preds(df, chain[2])) = 2
    /\ chain[1] = Max(Preds(df, chain[2]))

(***************************************************************************)
(* Properties of the whole script (Spec).                                  *)
(***************************************************************************)

\* C8: if a required input field (timestamp, event_type, resource_id or
\* actor) is absent, an analysis run fails before the chain search is
\* performed: the run never reaches an outcome of the search ("stopped"
\* after "No causal chain found", or "done"), no chain is computed, and
\* neither the "chain identified" outcome nor an explanation is produced.
C8_MissingFieldFailsAtLoad ==
    (has_df /\ cols # RequiredCols) =>
        /\ pc \notin {"stopped", "done"}
        /\ chain = None
        /\ out \cap {"chain_identified", "no_chain", "explanation", "timeline",
                     "confidence", "report"} = {}

====
